---------------------------- MODULE Spec2Model ----------------------------
(***************************************************************************)
(* CreditUdaan: the credit-report field extractor (credit_analyzer.py and  *)
(* its copy in app.py), the consolidator, and the two service operations   *)
(* of app.py (api_predict, api_auto_analysis) with the scoring network.    *)
(*                                                                         *)
(* Representation.  A report text is a sequence of tokens; a token is a    *)
(* labelled occurrence [lab, num, unit]: lab names the literal label text, *)
(* num is the character sequence that follows it (over digits, "," and     *)
(* ".") and unit the suffix after it.  A regular-expression search is the  *)
(* first token, left to right, that the pattern accepts.                   *)
(*                                                                         *)
(* A number is a record [cls, v].  cls "fin" is a finite value of v tenths;*)
(* "big" is a finite double beyond the float32 range (sign v); "inf" is an *)
(* infinity (sign v); "nan" is not-a-number.  The other classes are the    *)
(* non-numbers a value can be: Python's None, a raised ValueError, and the *)
(* JSON null and non-numeric string of a request body.                     *)
(***************************************************************************)
EXTENDS Integers, Sequences, FiniteSets, TLC

VARIABLES
    xImpl,      \* which extract_credit_info is applied: "analyzer" or "app"
    xText,      \* the text handed to extract_credit_info
    xPc,        \* "ready" before the call, "done" after it
    xResult,    \* what the call produced: [raised, info]
    scaler,     \* app.py's process-wide scaler: [loaded, mean, scale]
    model,      \* app.py's process-wide model: the name of its state dict
    apiKey,     \* whether OPENAI_API_KEY was configured at start
    tempFile,   \* the file "temp_uploaded.pdf": [exists, text]
    rq,         \* the requests in flight, one record per request slot
    cIn,        \* consolidate_summary's arguments: [pdf_info, csv_info, pdf_subs]
    cPc,        \* "ready" before the first call, "done" after a call
    cSummary,   \* the summary the last call returned
    cPrev,      \* the summary the call before it returned
    pRows,      \* the rows csv.DictReader yields to parse_csv_financial_data
    pPc,        \* "ready" before the call, "done" after it
    pResult,    \* what the call produced: [raised, rent_payments, ...]
    sText,      \* the text handed to extract_subscriptions
    sPc,        \* "ready" before the call, "done" after it
    sResult     \* the list extract_subscriptions returned

exVars == <<xImpl, xText, xPc, xResult>>
svcVars == <<scaler, model, apiKey, tempFile, rq>>
coVars == <<cIn, cPc, cSummary, cPrev>>
csvVars == <<pRows, pPc, pResult, sText, sPc, sResult>>
vars == <<xImpl, xText, xPc, xResult, scaler, model, apiKey, tempFile, rq,
          cIn, cPc, cSummary, cPrev, pRows, pPc, pResult, sText, sPc, sResult>>

-----------------------------------------------------------------------------
(* Bounds of the model *)

MaxTextLen == 3
NumRequests == 2
MaxSubsLen == 2
MaxRows == 2
MaxFragments == 2

-----------------------------------------------------------------------------
(* Numbers *)

F(v) == [cls |-> "fin", v |-> v]
Big(sgn) == [cls |-> "big", v |-> sgn]
Inf(sgn) == [cls |-> "inf", v |-> sgn]
NaN == [cls |-> "nan", v |-> 0]
None == [cls |-> "None", v |-> 0]
ValueError == [cls |-> "ValueError", v |-> 0]
JNull == [cls |-> "null", v |-> 0]
JStr == [cls |-> "str", v |-> 0]


-----------------------------------------------------------------------------
(* Numeric tokens: float(s.replace(',', '')) and int(s) *)

DigitChars == <<"0", "1", "2", "3", "4", "5", "6", "7", "8", "9">>

IsDigit(c) == \E i \in 1..Len(DigitChars) : DigitChars[i] = c

DigitVal(c) == (CHOOSE i \in 1..Len(DigitChars) : DigitChars[i] = c) - 1

\* s.replace(',', '')
RemoveCommas(s) == SelectSeq(s, LAMBDA c : c # ",")

\* The value of a run of decimal digits, most significant first.
RECURSIVE DigitsValue(_)
DigitsValue(s) ==
    IF s = <<>> THEN 0
    ELSE DigitsValue(SubSeq(s, 1, Len(s) - 1)) * 10 + DigitVal(s[Len(s)])

\* The longest prefix of s made of digits: what (\d+) captures at its start.
RECURSIVE LeadingDigits(_)
LeadingDigits(s) ==
    IF s = <<>> \/ ~IsDigit(s[1]) THEN <<>>
    ELSE <<s[1]>> \o LeadingDigits(Tail(s))

\* int(group): the group is a non-empty run of digits.
ParseInt(s) == DigitsValue(s)

\* Python's float() on a string over digits and ".": digits with at most one
\* point and at least one digit; anything else raises ValueError.  A run of 40
\* or more digits is a finite double of at least 1e39, which is beyond the
\* float32 range (about 3.4e38).
PyFloat(t) ==
    LET dots   == { i \in 1..Len(t) : t[i] = "." }
        digits == { i \in 1..Len(t) : IsDigit(t[i]) }
    IN  IF Cardinality(dots) > 1 \/ digits = {} THEN ValueError
        ELSE LET p    == IF dots = {} THEN Len(t) + 1 ELSE CHOOSE i \in dots : TRUE
                 int  == SubSeq(t, 1, p - 1)
                 frac == SubSeq(t, p + 1, Len(t))
             IN  IF Len(int) >= 40 /\ int[1] # "0" THEN Big(1)
                 ELSE F(DigitsValue(int) * 10
                        + (IF frac = <<>> THEN 0 ELSE DigitVal(frac[1])))

\* float(m.group(1).replace(',', ''))
ParseFloat(s) == PyFloat(RemoveCommas(s))

\* float(...) / 12, to the tenth
DivideBy12(x) == IF x.cls = "fin" THEN F(x.v \div 12) ELSE x

-----------------------------------------------------------------------------
(* Sets and sequences *)

Range(f) == { f[i] : i \in DOMAIN f }

\* The sequences over S of length at most n
SeqsUpTo(S, n) == UNION { [1..k -> S] : k \in 0..n }

\* list(a_set): the elements once each, in an order the caller cannot choose
ListsOf(S) ==
    { l \in [1..Cardinality(S) -> S] : \A i, j \in DOMAIN l : l[i] = l[j] => i = j }

-----------------------------------------------------------------------------
(* Tokens of a report text *)

Tok(lab, num, unit) == [lab |-> lab, num |-> num, unit |-> unit]

\* r"Credit Utilization(?:\s*):(?:\s*)([\d,.]+)%"
MatchesLabeledUtil(t) ==
    t.lab = "Credit Utilization" /\ t.num # <<>> /\ t.unit = "%"

\* r"Utilization(?:\s*):(?:\s*)([\d,.]+)%": also found inside "Credit Utilization: N%"
MatchesGenericUtil(t) ==
    t.lab \in {"Credit Utilization", "Utilization"} /\ t.num # <<>> /\ t.unit = "%"

\* r"Open Accounts(?:\s*):(?:\s*)(\d+)"
MatchesOpenAccounts(t) == t.lab = "Open Accounts" /\ LeadingDigits(t.num) # <<>>

\* r"Status\s*:\s*Open" and r"Status\s*:\s*Closed"
MatchesStatusOpen(t) == t.lab = "Status: Open"
MatchesStatusClosed(t) == t.lab = "Status: Closed"

\* r"Account Age(?:\s*):(?:\s*)([\d,.]+)\s*yrs" and the same with months
MatchesAgeYears(t) == t.lab = "Account Age" /\ t.num # <<>> /\ t.unit = "yrs"
MatchesAgeMonths(t) == t.lab = "Account Age" /\ t.num # <<>> /\ t.unit = "months"

\* r"Credit Card(?:\s*):(?:\s*)(\d+)" and the literal r"Credit Card"
MatchesCreditCardCount(t) == t.lab = "Credit Card" /\ LeadingDigits(t.num) # <<>>
MatchesCreditCard(t) == t.lab = "Credit Card"

\* r"Loan(?:\s*):(?:\s*)(\d+)" and the literal r"Loan"
MatchesLoanCount(t) == t.lab = "Loan" /\ LeadingDigits(t.num) # <<>>
MatchesLoan(t) == t.lab = "Loan"

\* r"Enquiry Date"
MatchesEnquiry(t) == t.lab = "Enquiry Date"

\* r"DPD\s*:\s*([0-9\s]+)"
MatchesDPD(t) == t.lab = "DPD" /\ LeadingDigits(t.num) # <<>>

\* r"Late Payment(?:s)?\s*:\s*(\d+)" and r"Missed Payment(?:s)?\s*:\s*(\d+)"
MatchesLatePayments(t) == t.lab = "Late Payments" /\ LeadingDigits(t.num) # <<>>
MatchesMissedPayments(t) == t.lab = "Missed Payments" /\ LeadingDigits(t.num) # <<>>

\* Whether the pattern named p accepts the token t.
Accepts(p, t) ==
    CASE p = "MatchesLabeledUtil" -> MatchesLabeledUtil(t)
      [] p = "MatchesGenericUtil" -> MatchesGenericUtil(t)
      [] p = "MatchesOpenAccounts" -> MatchesOpenAccounts(t)
      [] p = "MatchesStatusOpen" -> MatchesStatusOpen(t)
      [] p = "MatchesStatusClosed" -> MatchesStatusClosed(t)
      [] p = "MatchesAgeYears" -> MatchesAgeYears(t)
      [] p = "MatchesAgeMonths" -> MatchesAgeMonths(t)
      [] p = "MatchesCreditCardCount" -> MatchesCreditCardCount(t)
      [] p = "MatchesCreditCard" -> MatchesCreditCard(t)
      [] p = "MatchesLoanCount" -> MatchesLoanCount(t)
      [] p = "MatchesLoan" -> MatchesLoan(t)
      [] p = "MatchesEnquiry" -> MatchesEnquiry(t)
      [] p = "MatchesDPD" -> MatchesDPD(t)
      [] p = "MatchesLatePayments" -> MatchesLatePayments(t)
      [] p = "MatchesMissedPayments" -> MatchesMissedPayments(t)

\* The first token of text that the pattern p accepts (re.search), 0 if none.
FirstMatch(text, p) ==
    LET S == { i \in 1..Len(text) : Accepts(p, text[i]) }
    IN  IF S = {} THEN 0 ELSE CHOOSE i \in S : \A j \in S : i <= j

\* The number of tokens of text that the pattern accepts (len(re.findall)).
CountMatches(text, p) == Cardinality({ i \in 1..Len(text) : Accepts(p, text[i]) })

-----------------------------------------------------------------------------
(* extract_credit_info, field by field *)

\* A bug the precedence claim must catch: whichever utilization occurrence
\* comes first in the text wins.
UtilizationFirstOccurrence(text) ==
    LET g == FirstMatch(text, "MatchesGenericUtil")
    IN  IF g # 0 THEN ParseFloat(text[g].num) ELSE None

\* credit_utilization_percent: the labeled pattern, else the generic one, else None.
Utilization(text) ==
    LET m == FirstMatch(text, "MatchesLabeledUtil")
    IN  IF m # 0 THEN ParseFloat(text[m].num)
        ELSE LET g == FirstMatch(text, "MatchesGenericUtil")
             IN  IF g # 0 THEN ParseFloat(text[g].num) ELSE None

\* A bug the fallback claim must catch: the markers are counted even when the
\* explicit label is present.
OpenAccountsAlwaysCounted(text) == CountMatches(text, "MatchesStatusOpen")

\* number_of_open_accounts: the explicit label, else the count of markers.
OpenAccounts(text) ==
    LET m == FirstMatch(text, "MatchesOpenAccounts")
    IN  IF m # 0 THEN ParseInt(LeadingDigits(text[m].num))
        ELSE CountMatches(text, "MatchesStatusOpen")

\* number_of_closed_accounts
ClosedAccounts(text) == CountMatches(text, "MatchesStatusClosed")

\* account_age_years: years, else months / 12, else None.
AccountAge(text) ==
    LET y == FirstMatch(text, "MatchesAgeYears")
    IN  IF y # 0
        THEN ParseFloat(text[y].num)
        ELSE LET m == FirstMatch(text, "MatchesAgeMonths")
             IN  IF m = 0 THEN None ELSE DivideBy12(ParseFloat(text[m].num))

\* credit_card_count and loan_count: the labeled count, else the occurrences.
CreditCardCount(text) ==
    LET m == FirstMatch(text, "MatchesCreditCardCount")
    IN  IF m # 0 THEN ParseInt(LeadingDigits(text[m].num))
        ELSE CountMatches(text, "MatchesCreditCard")

LoanCount(text) ==
    LET m == FirstMatch(text, "MatchesLoanCount")
    IN  IF m # 0 THEN ParseInt(LeadingDigits(text[m].num))
        ELSE CountMatches(text, "MatchesLoan")

\* recent_inquiries
RecentInquiries(text) == CountMatches(text, "MatchesEnquiry")

\* payment_history: one entry per DPD run, then the late and the missed
\* payment counts; None when the list is empty.
RECURSIVE DpdEntries(_)
DpdEntries(text) ==
    IF text = <<>> THEN <<>>
    ELSE (IF MatchesDPD(Head(text))
          THEN << [kind |-> "dpd", val |-> ParseInt(LeadingDigits(Head(text).num))] >>
          ELSE <<>>) \o DpdEntries(Tail(text))

PaymentHistory(text) ==
    LET l == FirstMatch(text, "MatchesLatePayments")
        m == FirstMatch(text, "MatchesMissedPayments")
        h == DpdEntries(text)
             \o (IF l # 0
                 THEN << [kind |-> "late_payments",
                          val |-> ParseInt(LeadingDigits(text[l].num))] >>
                 ELSE <<>>)
             \o (IF m # 0
                 THEN << [kind |-> "missed_payments",
                          val |-> ParseInt(LeadingDigits(text[m].num))] >>
                 ELSE <<>>)
    IN  IF h = <<>> THEN [cls |-> "None", items |-> <<>>]
        ELSE [cls |-> "list", items |-> h]

\* missed_payments of app.py: the late-payment count, 0 when not labeled.
AppMissedPayments(text) ==
    LET l == FirstMatch(text, "MatchesLatePayments")
    IN  IF l # 0 THEN ParseInt(LeadingDigits(text[l].num)) ELSE 0

NoInfo == [cls |-> "None"]
Raised == [raised |-> TRUE, info |-> NoInfo]
Returned(info) == [raised |-> FALSE, info |-> info]

\* extract_credit_info of credit_analyzer.py.  A float() that raises ends the
\* call: nothing catches the ValueError inside the function.
ExtractCreditInfo(text) ==
    IF Utilization(text) = ValueError \/ AccountAge(text) = ValueError
    THEN Raised
    ELSE Returned([credit_utilization_percent |-> Utilization(text),
                   number_of_open_accounts    |-> OpenAccounts(text),
                   number_of_closed_accounts  |-> ClosedAccounts(text),
                   account_age_years          |-> AccountAge(text),
                   credit_card_count          |-> CreditCardCount(text),
                   loan_count                 |-> LoanCount(text),
                   recent_inquiries           |-> RecentInquiries(text),
                   payment_history            |-> PaymentHistory(text)])

\* extract_credit_info of app.py.
AppExtractCreditInfo(text) ==
    IF Utilization(text) = ValueError
    THEN Raised
    ELSE Returned([credit_utilization_percent |-> Utilization(text),
                   number_of_open_accounts    |-> OpenAccounts(text),
                   missed_payments            |-> AppMissedPayments(text)])

-----------------------------------------------------------------------------
(* The scoring network: CreditScoreNet and the scaler *)

input_dim == 5
hidden1 == 32
hidden2 == 16
output_min == 300
output_max == 900

\* MODEL_FEATURES, the canonical order
MODEL_FEATURES ==
    <<"credit_utilization", "open_accounts", "missed_payments",
      "monthly_rent", "active_subscriptions">>

\* float32 arithmetic on numbers.  Finite values of the model stay far inside
\* the float32 range; an infinity or a NaN propagates as IEEE 754 says.
Sign(n) == IF n > 0 THEN 1 ELSE IF n < 0 THEN -1 ELSE 0

\* w * x for a weight w (a whole number)
Mul(w, x) ==
    CASE x.cls = "fin" -> F(w * x.v)
      [] x.cls = "inf" -> IF w = 0 THEN NaN ELSE Inf(Sign(w) * x.v)
      [] OTHER         -> NaN

Add(a, b) ==
    IF a.cls = "fin" /\ b.cls = "fin" THEN F(a.v + b.v)
    ELSE CASE a.cls = "nan" \/ b.cls = "nan"   -> NaN
           [] a.cls = "inf" /\ b.cls = "inf"   -> IF a.v = b.v THEN a ELSE NaN
           [] a.cls = "inf"                    -> a
           [] OTHER                            -> b

\* np.array(features, dtype=np.float32): a finite double beyond the float32
\* range becomes an infinity, None becomes NaN, a non-numeric string raises.
CastFloat32(x) ==
    CASE x.cls = "big"  -> Inf(x.v)
      [] x.cls = "null" -> NaN
      [] x.cls = "str"  -> ValueError
      [] OTHER          -> x

\* nn.ReLU
ReLU(x) ==
    CASE x.cls = "fin" -> F(IF x.v > 0 THEN x.v ELSE 0)
      [] x.cls = "inf" -> IF x.v > 0 THEN x ELSE F(0)
      [] OTHER         -> x

\* torch.sigmoid, to the tenth: 0.55, 0.65, 0.75, 0.85 and 0.95 are reached at
\* 0.20, 0.62, 1.10, 1.73 and 2.94.
SigmoidPos(v) ==
    IF v < 2 THEN 5 ELSE IF v < 7 THEN 6 ELSE IF v < 11 THEN 7
    ELSE IF v < 18 THEN 8 ELSE IF v < 30 THEN 9 ELSE 10

Sigmoid(x) ==
    CASE x.cls = "fin" -> F(IF x.v >= 0 THEN SigmoidPos(x.v) ELSE 10 - SigmoidPos(-x.v))
      [] x.cls = "inf" -> F(IF x.v > 0 THEN 10 ELSE 0)
      [] OTHER         -> x

\* scaled * (self.output_max - self.output_min) + self.output_min
Rescale(s) ==
    IF s.cls = "fin" THEN F(s.v * (output_max - output_min) + output_min * 10)
    ELSE s

\* The state dicts the model may have been loaded with.  Weights are whole
\* numbers, biases are tenths.
StateDicts == {"mixed", "negative", "small"}

W1(sd, j, i) ==
    CASE sd = "mixed"    -> IF (i + j) % 2 = 0 THEN 1 ELSE -1
      [] sd = "negative" -> -1
      [] sd = "small"    -> IF j = i THEN 1 ELSE 0

B1(sd, j) ==
    CASE sd = "mixed"    -> 0
      [] sd = "negative" -> 5
      [] sd = "small"    -> 0

W2(sd, k, j) ==
    CASE sd = "mixed"    -> IF ((j \div 2) + k) % 2 = 0 THEN 1 ELSE -1
      [] sd = "negative" -> IF j = k THEN 1 ELSE 0
      [] sd = "small"    -> IF j = k THEN (IF j % 2 = 0 THEN 1 ELSE -1) ELSE 0

B2(sd, k) ==
    CASE sd = "mixed"    -> 1
      [] sd = "negative" -> 0
      [] sd = "small"    -> 0

W3(sd, k) ==
    CASE sd = "mixed"    -> IF k % 3 = 0 THEN 1 ELSE -1
      [] sd = "negative" -> IF k = 1 THEN 1 ELSE 0
      [] sd = "small"    -> IF k <= input_dim THEN 1 ELSE 0

B3(sd) ==
    CASE sd = "mixed"    -> 3
      [] sd = "negative" -> -2
      [] sd = "small"    -> -4

\* sum of w[i] * x[i] for i in lo..hi (the sum is split in halves)
RECURSIVE Dot(_, _, _, _)
Dot(w, x, lo, hi) ==
    IF lo > hi THEN F(0)
    ELSE IF lo = hi THEN Mul(w[lo], x[lo])
    ELSE Add(Dot(w, x, lo, (lo + hi) \div 2), Dot(w, x, (lo + hi) \div 2 + 1, hi))

\* nn.Linear(5, 32) then nn.ReLU: the units lo..hi
RECURSIVE Layer1(_, _, _, _)
Layer1(sd, x, lo, hi) ==
    IF lo = hi
    THEN << ReLU(Add(Dot([i \in 1..input_dim |-> W1(sd, lo, i)], x, 1, input_dim),
                     F(B1(sd, lo)))) >>
    ELSE Layer1(sd, x, lo, (lo + hi) \div 2) \o Layer1(sd, x, (lo + hi) \div 2 + 1, hi)

\* nn.Linear(32, 16) then nn.ReLU: the units lo..hi
RECURSIVE Layer2(_, _, _, _)
Layer2(sd, h1, lo, hi) ==
    IF lo = hi
    THEN << ReLU(Add(Dot([j \in 1..hidden1 |-> W2(sd, lo, j)], h1, 1, hidden1),
                     F(B2(sd, lo)))) >>
    ELSE Layer2(sd, h1, lo, (lo + hi) \div 2) \o Layer2(sd, h1, (lo + hi) \div 2 + 1, hi)

\* nn.Linear(16, 1)
Layer3(sd, h2) ==
    Add(Dot([k \in 1..hidden2 |-> W3(sd, k)], h2, 1, hidden2), F(B3(sd)))

\* self.net(x)
Net(sd, x) == Layer3(sd, Layer2(sd, Layer1(sd, x, 1, hidden1), 1, hidden2))

\* A bug the range claim must catch: the raw output is returned unsquashed.
ForwardUnsquashed(sd, x) == Net(sd, x)

\* CreditScoreNet.forward
Forward(sd, x) == Rescale(Sigmoid(Net(sd, x)))

\* The scalers the process may have loaded: none (scaler.pkl is missing), or a
\* fitted StandardScaler with mean_ and scale_ in tenths.
NoScaler == [loaded |-> FALSE, mean |-> <<0, 0, 0, 0, 0>>, scale |-> <<10, 10, 10, 10, 10>>]
FittedScaler ==
    [loaded |-> TRUE, mean |-> <<350, 50, 7, 150000, 20>>,
     scale |-> <<150, 22, 8, 80000, 14>>]
Scalers == {NoScaler, FittedScaler}

\* scaler.transform([features])[0]: (x - mean_) / scale_ in doubles, to the
\* tenth.  A non-numeric string raises; None is NaN and passes through.
TransformOne(x, mean, scale) ==
    CASE x.cls = "fin"  -> F(((x.v - mean) * 10) \div scale)
      [] x.cls = "null" -> NaN
      [] x.cls = "str"  -> ValueError
      [] OTHER          -> x

Transform(sc, features) ==
    [i \in 1..Len(features) |-> TransformOne(features[i], sc.mean[i], sc.scale[i])]

\* Lines 101-106 and 128-133 of app.py: the scaler when loaded, the float32
\* array, the model.  The result is the score, or ValueError when the scaler
\* or the array conversion raised.
Score(sc, sd, features) ==
    LET scaled == IF sc.loaded THEN Transform(sc, features) ELSE features
        x      == [i \in 1..Len(scaled) |-> CastFloat32(scaled[i])]
    IN  IF \E i \in 1..Len(features) :
              scaled[i] = ValueError \/ x[i] = ValueError
        THEN ValueError
        ELSE Forward(sd, x)

-----------------------------------------------------------------------------
(* The service: api_predict and api_auto_analysis of app.py *)

Requests == 1..NumRequests

NoBody == [kind |-> "none", data |-> <<>>]
NoUpload == [present |-> FALSE, valid |-> FALSE, text |-> <<>>]
Upload(text) == [present |-> TRUE, valid |-> TRUE, text |-> text]
CorruptUpload == [present |-> TRUE, valid |-> FALSE, text |-> <<>>]
NoFile == [exists |-> FALSE, valid |-> FALSE, text |-> <<>>]
NotBuilt == [built |-> FALSE, vec |-> <<>>]
NotRead == [read |-> FALSE, text |-> <<>>]
NotExtracted == [raised |-> FALSE, info |-> NoInfo]
NoAnalysis == [kind |-> "none", msg |-> ""]
NoResponse ==
    [kind |-> "none", status |-> 0, msg |-> "", score |-> None,
     fields |-> NoInfo, openai |-> NoAnalysis]

\* A request slot before a request arrives.
IdleRequest ==
    [pc |-> "idle", op |-> "none", body |-> NoBody, upload |-> NoUpload,
     features |-> NotBuilt, read |-> NotRead, extracted |-> NotExtracted,
     score |-> None, openai |-> NoAnalysis, ran |-> {}, resp |-> NoResponse]

\* jsonify({'error': msg}), status
ErrorResponse(status, msg) ==
    [NoResponse EXCEPT !.kind = "error", !.status = status, !.msg = msg]

\* An exception that leaves the view function: Flask answers with its own
\* 500 page, not with a JSON object of the handler.
Unhandled(msg) ==
    [NoResponse EXCEPT !.kind = "unhandled", !.status = 500, !.msg = msg]

\* round(score, 2): a score held in tenths has at most two decimals.
Round2(x) == x

\* A bug the feature-vector claim must catch: the values the body supplies
\* come first and the defaults of the omitted fields are appended after them.
PredictFeaturesPresentFirst(data) ==
    LET RECURSIVE Keep(_)
        Keep(i) == IF i > Len(MODEL_FEATURES) THEN <<>>
                   ELSE (IF MODEL_FEATURES[i] \in DOMAIN data
                         THEN <<data[MODEL_FEATURES[i]]>> ELSE <<>>) \o Keep(i + 1)
        present == Keep(1)
    IN  present \o [i \in 1..(Len(MODEL_FEATURES) - Len(present)) |-> F(0)]

\* [data.get(f, 0) for f in MODEL_FEATURES]
PredictFeatures(data) ==
    [i \in 1..Len(MODEL_FEATURES) |->
        IF MODEL_FEATURES[i] \in DOMAIN data THEN data[MODEL_FEATURES[i]] ELSE F(0)]

\* x or 0
OrZero(x) == IF x.cls = "None" \/ (x.cls = "fin" /\ x.v = 0) THEN F(0) ELSE x

\* A count (an int) as a number
Count(n) == F(n * 10)

\* Lines 121-127: the extracted fields, then the placeholders 20000 and 2.
AnalysisFeatures(info) ==
    << OrZero(info.credit_utilization_percent),
       OrZero(Count(info.number_of_open_accounts)),
       OrZero(Count(info.missed_payments)),
       F(20000 * 10),
       F(2 * 10) >>

-----------------------------------------------------------------------------
(* Inputs of the runs *)

N42_5 == <<"4", "2", ".", "5">>
N30 == <<"3", "0">>
N1_2_3 == <<"1", ".", "2", ".", "3">>
NCommaDot == <<",", ".">>
N1234_5 == <<"1", ",", "2", "3", "4", ".", "5">>
NHuge == [i \in 1..40 |-> "9"]

Marker(lab) == Tok(lab, <<>>, "")

\* The tokens the extraction texts are made of.
ExtractTokens ==
    { Tok("Credit Utilization", N42_5, "%"),
      Tok("Credit Utilization", N1_2_3, "%"),
      Tok("Utilization", N30, "%"),
      Tok("Utilization", N1234_5, "%"),
      Tok("Open Accounts", <<"4">>, ""),
      Marker("Status: Open"),
      Marker("Status: Closed"),
      Tok("Account Age", NCommaDot, "yrs"),
      Tok("Account Age", <<"1", "8">>, "months"),
      Tok("Late Payments", <<"2">>, ""),
      Tok("Missed Payments", <<"1">>, ""),
      Marker("Credit Card"),
      Tok("DPD", N30, "") }

Texts == SeqsUpTo(ExtractTokens, MaxTextLen)

\* The documents uploaded to the service.
DocA == << Tok("Credit Utilization", N42_5, "%"), Tok("Open Accounts", <<"4">>, "") >>
DocB == << Marker("Status: Open"), Tok("Utilization", N30, "%"),
           Tok("Late Payments", <<"2">>, "") >>
DocMalformed == << Tok("Credit Utilization", N1_2_3, "%"), Marker("Status: Open") >>

ServiceUploads == { NoUpload, Upload(DocA), Upload(DocB), Upload(DocMalformed) }

\* The state dict of the service runs.
ServiceStateDicts == {"mixed"}

Object(data) == [kind |-> "object", data |-> data]

\* A value for each feature, in tenths: 30.0, 4, 1, 15000, 3
BaseValue(f) ==
    CASE f = "credit_utilization"   -> F(300)
      [] f = "open_accounts"        -> F(40)
      [] f = "missed_payments"      -> F(10)
      [] f = "monthly_rent"         -> F(150000)
      [] f = "active_subscriptions" -> F(30)

FeatureNames == Range(MODEL_FEATURES)

BaseObject(K) == [f \in K |-> BaseValue(f)]

\* The request bodies of api_predict in the service runs: no JSON body, a JSON
\* list, and objects.
ServiceBodies ==
    { [kind |-> "missing", data |-> <<>>],
      [kind |-> "list", data |-> <<>>],
      Object(BaseObject(FeatureNames)),
      Object([BaseObject(FeatureNames) EXCEPT !["missed_payments"] = JStr]) }


\* The values a body may carry in place of a base value: a finite double
\* beyond the float32 range, a negative number, null, a non-numeric string.
SpecialValues == { Big(1), F(-500), JNull, JStr }

\* The request bodies of api_predict in the scoring runs: every subset of the
\* features, with at most one value replaced by a special one.
ScoreBodies ==
    { [kind |-> "missing", data |-> <<>>], [kind |-> "list", data |-> <<>>] }
    \cup { Object(BaseObject(K)) : K \in SUBSET FeatureNames }
    \cup UNION { { Object([BaseObject(K) EXCEPT ![f] = v]) :
                     f \in K, v \in SpecialValues } : K \in SUBSET FeatureNames }

\* The documents of the scoring runs: the texts of at most two tokens that
\* app.py's extractor reads, and one with a 40-digit utilization.
AppTokens ==
    { Tok("Credit Utilization", N42_5, "%"),
      Tok("Utilization", N30, "%"),
      Tok("Utilization", <<"0">>, "%"),
      Tok("Open Accounts", <<"4">>, ""),
      Marker("Status: Open"),
      Tok("Late Payments", <<"2">>, "") }

ScoreUploads ==
    { Upload(t) : t \in SeqsUpTo(AppTokens, 2) }
    \cup { Upload(<< Tok("Utilization", NHuge, "%") >>), NoUpload, CorruptUpload }

\* The arguments of consolidate_summary.
SubscriptionNames == {"Netflix", "Spotify", "Disney+"}

Row(desc) == [description |-> desc, amount |-> "649", date |-> "2024-01-05"]

ConsolidateInputs ==
    [ pdf_info : { ExtractCreditInfo(DocA).info, ExtractCreditInfo(<<>>).info },
      csv_info : [ rent_payments : { <<>>, << Row("house rent") >> },
                   recurring_obligations : { <<>> },
                   subscriptions : SeqsUpTo(SubscriptionNames, MaxSubsLen) ],
      pdf_subs : SeqsUpTo(SubscriptionNames, MaxSubsLen) ]

NoInput ==
    [pdf_info |-> NoInfo,
     csv_info |-> [rent_payments |-> <<>>, recurring_obligations |-> <<>>,
                   subscriptions |-> <<>>],
     pdf_subs |-> <<>>]


-----------------------------------------------------------------------------
(* The scores of the service runs *)

\* A bug the frame claim must catch: the scaler is fitted again on the vector
\* it is asked to transform (fit_transform).
ScalerAfterFitTransform(sc, features) ==
    IF sc.loaded THEN [sc EXCEPT !.mean = [i \in DOMAIN @ |-> @[i] + 1]] ELSE sc

\* The scaler after "if scaler: features = scaler.transform([features])[0]":
\* transform reads the fitted parameters and writes none.
ScalerAfterTransform(sc, features) == sc

\* The feature vectors the service runs hand to the scaler and the model.
ServiceFeatures ==
    { PredictFeatures(b.data) : b \in { c \in ServiceBodies : c.kind = "object" } }
    \cup { AnalysisFeatures(AppExtractCreditInfo(u.text).info) :
             u \in { v \in ServiceUploads :
                       v.valid /\ ~AppExtractCreditInfo(v.text).raised } }

\* Score on those vectors, computed once for the whole run.
ServiceScores ==
    { [sc |-> sc, sd |-> sd, features |-> f, score |-> Score(sc, sd, f)] :
        sc \in Scalers, sd \in ServiceStateDicts, f \in ServiceFeatures }

\* Score(sc, sd, features), read from ServiceScores when it is there.
ScoreOf(sc, sd, features) ==
    IF sd \in ServiceStateDicts /\ features \in ServiceFeatures
    THEN (CHOOSE e \in ServiceScores :
            e.sc = sc /\ e.sd = sd /\ e.features = features).score
    ELSE Score(sc, sd, features)

-----------------------------------------------------------------------------
(* The handlers *)

\* The view function has returned: its locals are gone; the response, what
\* the request ran and the vector it handed to the model remain.
Finished(req, ran, resp) ==
    [IdleRequest EXCEPT !.pc = "done", !.op = req.op, !.body = req.body,
                        !.upload = req.upload, !.features = req.features,
                        !.ran = ran, !.resp = resp]

\* api_predict.  Nothing in the function catches an exception.
ApiPredict(r, body) ==
    /\ rq[r].pc = "idle"
    /\ LET req  == [IdleRequest EXCEPT !.op = "predict", !.body = body]
           reqf == [req EXCEPT !.features = [built |-> TRUE,
                                             vec |-> PredictFeatures(body.data)]]
       IN  IF body.kind # "object"
           THEN rq' = [rq EXCEPT ![r] = Finished(req, {}, Unhandled("AttributeError"))]
           ELSE \E score \in { ScoreOf(scaler, model, reqf.features.vec) } :
                rq' = [rq EXCEPT ![r] =
                         IF score = ValueError
                         THEN Finished(reqf, {}, Unhandled("ValueError"))
                         ELSE Finished(reqf, {"model"},
                                       [NoResponse EXCEPT
                                           !.kind = "result", !.status = 200,
                                           !.score = Round2(score)])]
    /\ scaler' = IF body.kind = "object"
                 THEN ScalerAfterTransform(scaler, PredictFeatures(body.data))
                 ELSE scaler
    /\ UNCHANGED <<model, apiKey, tempFile, exVars, coVars, csvVars>>

\* A bug the missing-upload claim must catch: the check is skipped.
MissingPdfIgnored(upload) == FALSE

\* 'pdf' not in request.files
MissingPdf(upload) == ~upload.present

\* api_auto_analysis, lines 112-116: the upload check and pdf_file.save to
\* temp_path, which is "temp_uploaded.pdf" for every request.
ApiAutoAnalysisBegin(r, upload) ==
    /\ rq[r].pc = "idle"
    /\ LET req == [IdleRequest EXCEPT !.op = "analyze", !.upload = upload]
       IN  IF MissingPdf(upload)
           THEN /\ rq' = [rq EXCEPT ![r] =
                            Finished(req, {}, ErrorResponse(400, "No PDF uploaded."))]
                /\ UNCHANGED tempFile
           ELSE /\ tempFile' = [exists |-> TRUE, valid |-> upload.valid,
                                text |-> upload.text]
                /\ rq' = [rq EXCEPT ![r] = [req EXCEPT !.pc = "saved", !.ran = {"save"}]]
    /\ UNCHANGED <<scaler, model, apiKey, exVars, coVars, csvVars>>

\* api_auto_analysis, lines 118-133: the text of whatever temp_uploaded.pdf
\* holds now, the fields, the features, the score.  An exception goes to the
\* handler of line 210, which answers with its message; the file stays.
ApiAutoAnalysisExtract(r) ==
    /\ rq[r].pc = "saved"
    /\ LET ex == AppExtractCreditInfo(tempFile.text)
       IN  rq' = [rq EXCEPT ![r] =
             IF ~tempFile.exists
             THEN Finished(@, @.ran, ErrorResponse(500, "FileNotFoundError"))
             ELSE IF ~tempFile.valid
             THEN Finished(@, @.ran \cup {"extract"}, ErrorResponse(500, "PdfReadError"))
             ELSE IF ex.raised
             THEN Finished(@, @.ran \cup {"extract"}, ErrorResponse(500, "ValueError"))
             ELSE [@ EXCEPT !.pc = "scored", !.ran = @ \cup {"extract", "model"},
                            !.read = [read |-> TRUE, text |-> tempFile.text],
                            !.extracted = ex,
                            !.features = [built |-> TRUE,
                                          vec |-> AnalysisFeatures(ex.info)],
                            !.score = ScoreOf(scaler, model, AnalysisFeatures(ex.info))]]
    /\ scaler' = LET ex == AppExtractCreditInfo(tempFile.text)
                 IN  IF tempFile.exists /\ tempFile.valid /\ ~ex.raised
                     THEN ScalerAfterTransform(scaler, AnalysisFeatures(ex.info))
                     ELSE scaler
    /\ UNCHANGED <<model, apiKey, tempFile, exVars, coVars, csvVars>>

\* What the external summarization call can do when a key is configured.
Outcomes == {"advice", "raises", "malformed"}

\* A bug the degradation claim must catch: the exception of the call is not
\* caught by analyze_credit_report and reaches the handler of line 210.
SummarizeUncaught(req, outcome) ==
    IF apiKey /\ outcome = "advice"
    THEN [req EXCEPT !.pc = "summarized", !.ran = @ \cup {"openai"},
                     !.openai = [kind |-> "advice", msg |-> ""]]
    ELSE Finished(req, req.ran \cup {"openai", "openai failed"},
                  ErrorResponse(500, "OpenAIError"))

\* analyze_credit_report, lines 135-199: the structured advice, or
\* {"openai_error": str(oe)} for anything the call or json.loads raised.
Summarize(req, outcome) ==
    [req EXCEPT !.pc = "summarized",
                !.ran = @ \cup (IF apiKey /\ outcome = "advice" THEN {"openai"}
                                ELSE {"openai", "openai failed"}),
                !.openai =
                    IF ~apiKey THEN [kind |-> "openai_error", msg |-> "no api key"]
                    ELSE IF outcome = "advice" THEN [kind |-> "advice", msg |-> ""]
                    ELSE IF outcome = "raises"
                    THEN [kind |-> "openai_error", msg |-> "APIError"]
                    ELSE [kind |-> "openai_error", msg |-> "JSONDecodeError"]]

\* api_auto_analysis, line 202
ApiAutoAnalysisSummarize(r, outcome) ==
    /\ rq[r].pc = "scored"
    /\ rq' = [rq EXCEPT ![r] = Summarize(@, outcome)]
    /\ UNCHANGED <<scaler, model, apiKey, tempFile, exVars, coVars, csvVars>>

\* api_auto_analysis, lines 204-211: os.remove(temp_path), then the result.
ApiAutoAnalysisRespond(r) ==
    /\ rq[r].pc = "summarized"
    /\ IF ~tempFile.exists
       THEN /\ rq' = [rq EXCEPT ![r] =
                        Finished(@, @.ran, ErrorResponse(500, "FileNotFoundError"))]
            /\ UNCHANGED tempFile
       ELSE /\ tempFile' = NoFile
            /\ rq' = [rq EXCEPT ![r] =
                        Finished(@, @.ran \cup {"remove"},
                                 [NoResponse EXCEPT
                                     !.kind = "result", !.status = 200,
                                     !.score = Round2(rq[r].score),
                                     !.fields = rq[r].extracted.info,
                                     !.openai = rq[r].openai])]
    /\ UNCHANGED <<scaler, model, apiKey, exVars, coVars, csvVars>>

\* The response has been sent; the slot takes the next request.
Forget(r) ==
    /\ rq[r].pc = "done"
    /\ rq' = [rq EXCEPT ![r] = IdleRequest]
    /\ UNCHANGED <<scaler, model, apiKey, tempFile, exVars, coVars, csvVars>>

-----------------------------------------------------------------------------
(* consolidate_summary of credit_analyzer.py *)

\* A bug the union claim must catch: the two lists are concatenated.
ConcatenatedSubscriptions(pdf_subs, csv_subs) == { pdf_subs \o csv_subs }

\* list(set(pdf_subs) | set(csv_info.get('subscriptions', []))): the lists
\* the call can return
ActiveSubscriptions(pdf_subs, csv_subs) == ListsOf(Range(pdf_subs) \cup Range(csv_subs))

NoSummary ==
    [made |-> FALSE, info |-> NoInfo, rent_payments |-> <<>>,
     recurring_obligations |-> <<>>, active_subscriptions |-> <<>>]

\* consolidate_summary(pdf_info, csv_info, pdf_subs) returning the list subs
Summary(in, subs) ==
    [made |-> TRUE, info |-> in.pdf_info,
     rent_payments |-> in.csv_info.rent_payments,
     recurring_obligations |-> in.csv_info.recurring_obligations,
     active_subscriptions |-> subs]

\* main(), step 5: the call on the extracted inputs; a later call is the same
\* call made again.
ConsolidateSummary ==
    /\ cPc \in {"ready", "done"}
    /\ \E subs \in ActiveSubscriptions(cIn.pdf_subs, cIn.csv_info.subscriptions) :
          cSummary' = Summary(cIn, subs)
    /\ cPrev' = cSummary
    /\ cPc' = "done"
    /\ UNCHANGED <<cIn, exVars, svcVars, csvVars>>

\* The call made with the subscriptions of the previous summary as pdf_subs.
ConsolidateFedBack ==
    /\ cPc = "done"
    /\ LET in == [cIn EXCEPT !.pdf_subs = cSummary.active_subscriptions]
       IN  /\ cIn' = in
           /\ \E subs \in ActiveSubscriptions(in.pdf_subs, in.csv_info.subscriptions) :
                 cSummary' = Summary(in, subs)
    /\ cPrev' = cSummary
    /\ cPc' = "done"
    /\ UNCHANGED <<exVars, svcVars, csvVars>>

-----------------------------------------------------------------------------
(* Calls of extract_credit_info *)

CallExtractCreditInfo ==
    /\ xPc = "ready" /\ xImpl = "analyzer"
    /\ xResult' = ExtractCreditInfo(xText)
    /\ xPc' = "done"
    /\ UNCHANGED <<xImpl, xText, svcVars, coVars, csvVars>>

CallAppExtractCreditInfo ==
    /\ xPc = "ready" /\ xImpl = "app"
    /\ xResult' = AppExtractCreditInfo(xText)
    /\ xPc' = "done"
    /\ UNCHANGED <<xImpl, xText, svcVars, coVars, csvVars>>

-----------------------------------------------------------------------------
(* Strings: a string is the sequence of its characters *)

UpperChars == <<"A", "B", "C", "D", "E", "F", "G", "H", "I", "J", "K", "L", "M", "N", "O", "P", "Q", "R", "S", "T", "U", "V", "W", "X", "Y", "Z">>

LowerChars == <<"a", "b", "c", "d", "e", "f", "g", "h", "i", "j", "k", "l", "m", "n", "o", "p", "q", "r", "s", "t", "u", "v", "w", "x", "y", "z">>

\* c.lower() of one character
LowerChar(c) ==
    IF \E i \in 1..Len(UpperChars) : UpperChars[i] = c
    THEN LowerChars[CHOOSE i \in 1..Len(UpperChars) : UpperChars[i] = c]
    ELSE c

\* s.lower()
Lower(s) == [i \in 1..Len(s) |-> LowerChar(s[i])]

\* k in s: k occurs in s as a substring
Contains(k, s) == \E i \in 0..(Len(s) - Len(k)) : SubSeq(s, i + 1, i + Len(k)) = k

\* any(k in s for k in keys)
ContainsAny(keys, s) == \E j \in 1..Len(keys) : Contains(keys[j], s)

\* The concatenation of a sequence of strings
RECURSIVE Join(_)
Join(parts) == IF parts = <<>> THEN <<>> ELSE Head(parts) \o Join(Tail(parts))

-----------------------------------------------------------------------------
(* parse_csv_financial_data and extract_subscriptions of credit_analyzer.py *)

rent_keywords ==
    << <<"r", "e", "n", "t">>,
       <<"h", "o", "u", "s", "e", " ", "r", "e", "n", "t">>,
       <<"f", "l", "a", "t", " ", "r", "e", "n", "t">>,
       <<"a", "p", "a", "r", "t", "m", "e", "n", "t", " ", "r", "e", "n", "t">> >>

subscription_keywords ==
    << <<"S", "p", "o", "t", "i", "f", "y">>,
       <<"N", "e", "t", "f", "l", "i", "x">>,
       <<"A", "m", "a", "z", "o", "n", " ", "P", "r", "i", "m", "e">>,
       <<"H", "o", "t", "s", "t", "a", "r">>,
       <<"S", "o", "n", "y", "L", "I", "V">>,
       <<"A", "p", "p", "l", "e", " ", "M", "u", "s", "i", "c">>,
       <<"Y", "o", "u", "T", "u", "b", "e", " ", "P", "r", "e", "m", "i", "u", "m">>,
       <<"G", "a", "a", "n", "a">>,
       <<"J", "i", "o", "S", "a", "a", "v", "n">>,
       <<"A", "L", "T", "B", "a", "l", "a", "j", "i">>,
       <<"Z", "e", "e", "5">>,
       <<"V", "o", "o", "t">>,
       <<"P", "r", "i", "m", "e", " ", "V", "i", "d", "e", "o">>,
       <<"D", "i", "s", "n", "e", "y", "+">>,
       <<"A", "i", "r", "t", "e", "l", " ", "X", "s", "t", "r", "e", "a", "m">>,
       <<"S", "u", "n", " ", "N", "X", "T">> >>

recurring_keywords ==
    << <<"E", "M", "I">>,
       <<"i", "n", "s", "u", "r", "a", "n", "c", "e">>,
       <<"l", "o", "a", "n">>,
       <<"c", "r", "e", "d", "i", "t", " ", "c", "a", "r", "d">>,
       <<"s", "i", "p">>,
       <<"m", "u", "t", "u", "a", "l", " ", "f", "u", "n", "d">>,
       <<"s", "u", "b", "s", "c", "r", "i", "p", "t", "i", "o", "n">> >>

known_services == subscription_keywords

\* The value row.get('Description', '') finds: a string, or None, which is
\* what csv.DictReader stores for a column the row is too short to reach.
\* A file without the column gives the default '', the empty string.
Description(s) == [cls |-> "str", s |-> s]
NoDescription == [cls |-> "None", s |-> <<>>]

\* A row as csv.DictReader yields it.
CsvRow(d) == [Description |-> d, Amount |-> "649", Date |-> "2024-01-05"]

\* {'description': desc, 'amount': amt, 'date': date} with desc lowercased
Entry(row) == Row(Lower(row.Description.s))

\* Lines 147, 151 and 154: the three tests on desc = Description.lower()
IsRent(desc) == ContainsAny(rent_keywords, desc)
IsSubscription(sub, desc) == Contains(Lower(sub), desc)
IsRecurring(desc) == ContainsAny(recurring_keywords, desc)

\* The entries of the rows whose lowercased description passes the test named
\* class, in the order of the rows.
RECURSIVE Entries(_, _)
Entries(rows, class) ==
    IF rows = <<>> THEN <<>>
    ELSE LET desc == Lower(Head(rows).Description.s)
             in   == IF class = "rent" THEN IsRent(desc) ELSE IsRecurring(desc)
         IN  (IF in THEN << Entry(Head(rows)) >> ELSE <<>>) \o Entries(Tail(rows), class)

\* The set subscriptions after the loop over the rows
Subscriptions(rows) ==
    { subscription_keywords[k] : k \in { k \in 1..Len(subscription_keywords) :
        \E i \in 1..Len(rows) :
            IsSubscription(subscription_keywords[k], Lower(rows[i].Description.s)) } }

NotParsed ==
    [raised |-> FALSE, rent_payments |-> <<>>, recurring_obligations |-> <<>>,
     subscriptions |-> <<>>]

\* parse_csv_financial_data on the rows of its files, returning the list subs
\* for list(subscriptions); None.lower() raises AttributeError and nothing
\* is returned.
ParseCsvFinancialData(rows, subs) ==
    IF \E i \in 1..Len(rows) : rows[i].Description.cls = "None"
    THEN [NotParsed EXCEPT !.raised = TRUE]
    ELSE [raised |-> FALSE,
          rent_payments |-> Entries(rows, "rent"),
          recurring_obligations |-> Entries(rows, "recurring"),
          subscriptions |-> subs]

\* The lists list(subscriptions) can be
ParsedSubscriptions(rows) ==
    IF \E i \in 1..Len(rows) : rows[i].Description.cls = "None"
    THEN { <<>> }
    ELSE ListsOf(Subscriptions(rows))

\* A compiled pattern: one item per character, an item followed by "+" being
\* that character one or more times.
RECURSIVE Compile(_)
Compile(pat) ==
    IF pat = <<>> THEN <<>>
    ELSE IF Len(pat) >= 2 /\ pat[2] = "+"
         THEN << [c |-> pat[1], plus |-> TRUE] >> \o Compile(SubSeq(pat, 3, Len(pat)))
         ELSE << [c |-> pat[1], plus |-> FALSE] >> \o Compile(Tail(pat))

\* Whether the items from the i-th on match text at position pos, ignoring case.
RECURSIVE MatchAt(_, _, _, _)
MatchAt(items, i, text, pos) ==
    IF i > Len(items) THEN TRUE
    ELSE IF pos > Len(text) \/ LowerChar(text[pos]) # LowerChar(items[i].c) THEN FALSE
    ELSE IF ~items[i].plus THEN MatchAt(items, i + 1, text, pos + 1)
    ELSE \/ MatchAt(items, i + 1, text, pos + 1)
         \/ MatchAt(items, i, text, pos + 1)

\* re.search(service, text, re.IGNORECASE)
ReSearch(service, text) ==
    \E pos \in 1..(Len(text) + 1) : MatchAt(Compile(service), 1, text, pos)

\* extract_subscriptions(text): the services found, in catalog order
RECURSIVE SubscriptionsFrom(_, _)
SubscriptionsFrom(k, text) ==
    IF k > Len(known_services) THEN <<>>
    ELSE (IF ReSearch(known_services[k], text) THEN << known_services[k] >> ELSE <<>>)
         \o SubscriptionsFrom(k + 1, text)

ExtractSubscriptions(text) == SubscriptionsFrom(1, text)

\* The pieces descriptions and texts are made of.
Fragments ==
    { <<"N", "e", "t", "f", "l", "i", "x">>,
      <<" ", "m", "o", "n", "t", "h", "l", "y">>,
      <<"D", "i", "s", "n", "e", "y">>,
      <<"+">>,
      <<"D", "I", "S", "N", "E", "Y", "Y">>,
      <<"D", "i", "s", "n", "e">>,
      <<"C", "a", "r", " ", "E", "M", "I">>,
      <<"e", "m", "i">>,
      <<"Y", "o", "u", "T", "u", "b", "e", " ", "P", "r", "e", "m", "i", "u", "m">>,
      <<"h", "o", "u", "s", "e", " ", "r", "e", "n", "t">>,
      <<" ", "l", "o", "a", "n">>,
      <<"S", "u", "n">>,
      <<" ", "N", "X", "T">>,
      <<"x", "y", "z">> }

\* The texts handed to extract_subscriptions.
SubscriptionTexts == { Join(parts) : parts \in SeqsUpTo(Fragments, MaxFragments) }

\* The descriptions of the rows of the tabular runs.
CsvDescriptions ==
    { Description(t) : t \in { <<>>,
                               <<"N", "e", "t", "f", "l", "i", "x", " ", "m", "o", "n", "t", "h", "l", "y">>,
                               <<"C", "a", "r", " ", "E", "M", "I">>,
                               <<"h", "o", "m", "e", " ", "l", "o", "a", "n", " ", "e", "m", "i">>,
                               <<"H", "o", "u", "s", "e", " ", "R", "e", "n", "t">>,
                               <<"r", "e", "n", "t", " ", "p", "a", "i", "d", " ", "b", "y", " ", "c", "r", "e", "d", "i", "t", " ", "c", "a", "r", "d">>,
                               <<"D", "i", "s", "n", "e", "y", "+", " ", "H", "o", "t", "s", "t", "a", "r", " ", "s", "u", "b", "s", "c", "r", "i", "p", "t", "i", "o", "n">>,
                               <<"Y", "o", "u", "T", "u", "b", "e", " ", "P", "r", "e", "m", "i", "u", "m">>,
                               <<"g", "r", "o", "c", "e", "r", "i", "e", "s">> } }
    \cup { NoDescription }

CsvRows == { CsvRow(d) : d \in CsvDescriptions }

\* The calls.
CallParseCsvFinancialData ==
    /\ pPc = "ready"
    /\ \E subs \in ParsedSubscriptions(pRows) :
          pResult' = ParseCsvFinancialData(pRows, subs)
    /\ pPc' = "done"
    /\ UNCHANGED <<pRows, sText, sPc, sResult, exVars, svcVars, coVars>>

CallExtractSubscriptions ==
    /\ sPc = "ready"
    /\ sResult' = ExtractSubscriptions(sText)
    /\ sPc' = "done"
    /\ UNCHANGED <<sText, pRows, pPc, pResult, exVars, svcVars, coVars>>

CsvOff ==
    /\ pRows = <<>> /\ pPc = "off" /\ pResult = NotParsed
    /\ sText = <<>> /\ sPc = "off" /\ sResult = <<>>

-----------------------------------------------------------------------------
(* Specifications *)

ExOff == xImpl = "none" /\ xText = <<>> /\ xPc = "off" /\ xResult = NotExtracted
CoOff == cIn = NoInput /\ cPc = "off" /\ cSummary = NoSummary /\ cPrev = NoSummary
SvcOff ==
    /\ scaler = NoScaler /\ model = "small" /\ apiKey = FALSE
    /\ tempFile = NoFile /\ rq = [r \in Requests |-> IdleRequest]

\* The service after start: the scaler, the model and the key are whatever the
\* files and the environment held; no request has arrived.
Init ==
    /\ scaler \in Scalers
    /\ model \in ServiceStateDicts
    /\ apiKey \in BOOLEAN
    /\ tempFile = NoFile
    /\ rq = [r \in Requests |-> IdleRequest]
    /\ ExOff /\ CoOff /\ CsvOff

\* The requests run concurrently, one thread each.
Next ==
    \E r \in Requests :
        \/ \E body \in ServiceBodies : ApiPredict(r, body)
        \/ \E upload \in ServiceUploads : ApiAutoAnalysisBegin(r, upload)
        \/ ApiAutoAnalysisExtract(r)
        \/ \E outcome \in Outcomes : ApiAutoAnalysisSummarize(r, outcome)
        \/ ApiAutoAnalysisRespond(r)
        \/ Forget(r)

Spec == Init /\ [][Next]_vars

\* The service handling one request at a time, over every state dict and
\* every body and document of the scoring runs.
InitScore ==
    /\ scaler \in Scalers
    /\ model \in StateDicts
    /\ apiKey \in BOOLEAN
    /\ tempFile = NoFile
    /\ rq = [r \in Requests |-> IdleRequest]
    /\ ExOff /\ CoOff /\ CsvOff

NextScore ==
    \/ \E body \in ScoreBodies : ApiPredict(1, body)
    \/ \E upload \in ScoreUploads : ApiAutoAnalysisBegin(1, upload)
    \/ ApiAutoAnalysisExtract(1)
    \/ \E outcome \in Outcomes : ApiAutoAnalysisSummarize(1, outcome)
    \/ ApiAutoAnalysisRespond(1)
    \/ Forget(1)

SpecScore == InitScore /\ [][NextScore]_vars

\* extract_credit_info applied to every text of the bound.
InitExtract ==
    /\ xImpl \in {"analyzer", "app"}
    /\ xText \in Texts
    /\ xPc = "ready"
    /\ xResult = NotExtracted
    /\ SvcOff /\ CoOff /\ CsvOff

NextExtract == CallExtractCreditInfo \/ CallAppExtractCreditInfo

SpecExtract == InitExtract /\ [][NextExtract]_vars

\* consolidate_summary applied to every input of the bound, again and again.
InitConsolidate ==
    /\ cIn \in ConsolidateInputs
    /\ cPc = "ready"
    /\ cSummary = NoSummary
    /\ cPrev = NoSummary
    /\ ExOff /\ SvcOff /\ CsvOff

NextConsolidate == ConsolidateSummary \/ ConsolidateFedBack

SpecConsolidate == InitConsolidate /\ [][NextConsolidate]_vars

\* parse_csv_financial_data applied to every list of rows of the bound.
InitCsv ==
    /\ pRows \in SeqsUpTo(CsvRows, MaxRows)
    /\ pPc = "ready"
    /\ pResult = NotParsed
    /\ sText = <<>> /\ sPc = "off" /\ sResult = <<>>
    /\ ExOff /\ SvcOff /\ CoOff

NextCsv == CallParseCsvFinancialData

SpecCsv == InitCsv /\ [][NextCsv]_vars

\* extract_subscriptions applied to a text, and parse_csv_financial_data
\* applied to one row whose description is that text.
InitSubs ==
    /\ sText \in SubscriptionTexts
    /\ sPc = "ready"
    /\ sResult = <<>>
    /\ pRows = << CsvRow(Description(sText)) >>
    /\ pPc = "ready"
    /\ pResult = NotParsed
    /\ ExOff /\ SvcOff /\ CoOff

NextSubs == CallExtractSubscriptions \/ CallParseCsvFinancialData

SpecSubs == InitSubs /\ [][NextSubs]_vars

-----------------------------------------------------------------------------
(* The claims *)

InRange(score) ==
    score.cls = "fin" /\ output_min * 10 <= score.v /\ score.v <= output_max * 10

FiniteBody(body) ==
    body.kind = "object" /\ \A f \in DOMAIN body.data : body.data[f].cls \in {"fin", "big"}

\* C1: every analyze request extracts the text of the document it uploaded
\* itself and answers with that document's fields and score, and none fails
\* because the staged file of another request replaced or removed its own.
C1_OwnDocument ==
    \A r \in Requests :
        /\ rq[r].read.read => rq[r].read.text = rq[r].upload.text
        /\ (rq[r].pc = "done" /\ rq[r].op = "analyze" /\ rq[r].resp.kind = "result")
              => /\ rq[r].resp.fields = AppExtractCreditInfo(rq[r].upload.text).info
                 /\ rq[r].resp.score =
                      Round2(ScoreOf(scaler, model,
                          AnalysisFeatures(AppExtractCreditInfo(rq[r].upload.text).info)))
        /\ rq[r].resp.msg # "FileNotFoundError"

\* C2: for every body or document of finite numbers, with the scaler loaded or
\* not, the score of the predict path and of the analyze path lies in
\* [300, 900].
C2_ScoreInRange ==
    \A r \in Requests :
        /\ (rq[r].pc = "done" /\ rq[r].op = "predict" /\ FiniteBody(rq[r].body))
              => rq[r].resp.kind = "result" /\ InRange(rq[r].resp.score)
        /\ (rq[r].op = "analyze" /\ rq[r].pc \in {"scored", "summarized"})
              => InRange(rq[r].score)
        /\ (rq[r].pc = "done" /\ rq[r].op = "analyze" /\ rq[r].resp.kind = "result")
              => InRange(rq[r].resp.score)

\* The value the body gives for a feature, 0 when it gives none.
Supplied(body, f) == IF f \in DOMAIN body.data THEN body.data[f] ELSE F(0)

\* The fields an analyze request extracted: its local info, then the fields of
\* its result.
FieldsOf(req) == IF req.pc = "done" THEN req.resp.fields ELSE req.extracted.info

\* C3: the vector handed to the scaler and the model has exactly 5 elements in
\* the order utilization, open accounts, missed payments, rent, subscriptions,
\* whatever fields the body or the extractor supplied: on the predict path a
\* field the body omits is 0; on the document path an unextracted field is 0
\* and rent and subscriptions are the placeholders 20000 and 2.
C3_FeatureVector ==
    \A r \in Requests :
        /\ "model" \in rq[r].ran => rq[r].features.built
        /\ rq[r].features.built =>
             LET v == rq[r].features.vec
             IN  /\ Len(v) = 5
                 /\ rq[r].op = "predict" =>
                      /\ v[1] = Supplied(rq[r].body, "credit_utilization")
                      /\ v[2] = Supplied(rq[r].body, "open_accounts")
                      /\ v[3] = Supplied(rq[r].body, "missed_payments")
                      /\ v[4] = Supplied(rq[r].body, "monthly_rent")
                      /\ v[5] = Supplied(rq[r].body, "active_subscriptions")
                 /\ (rq[r].op = "analyze"
                     /\ (rq[r].pc # "done" \/ rq[r].resp.kind = "result")) =>
                      LET info == FieldsOf(rq[r])
                      IN  /\ v[1] = IF info.credit_utilization_percent.cls = "None"
                                    THEN F(0) ELSE info.credit_utilization_percent
                          /\ v[2] = F(info.number_of_open_accounts * 10)
                          /\ v[3] = F(info.missed_payments * 10)
                          /\ v[4] = F(200000)
                          /\ v[5] = F(20)

\* C3's case: a predict body that carries some of the fields and omits the
\* others has been scored.
C3_Witness ==
    /\ rq[1].pc = "done" /\ rq[1].op = "predict" /\ rq[1].features.built
    /\ DOMAIN rq[1].body.data = {"open_accounts", "monthly_rent"}
    /\ "model" \in rq[1].ran

\* C4: when the summarization call fails (it raises, no key is configured, or
\* its output is malformed), the analyze request still answers with a result
\* that carries the score and the extracted fields, the failure being the
\* error payload of the summarization field only.
C4_SummarizationDegrades ==
    \A r \in Requests :
        (rq[r].pc = "done" /\ "openai failed" \in rq[r].ran)
           => /\ rq[r].resp.kind = "result"
              /\ rq[r].resp.openai.kind = "openai_error"
              /\ rq[r].resp.score = Round2(ScoreOf(scaler, model, rq[r].features.vec))
              /\ rq[r].resp.fields # NoInfo
              /\ rq[r].features.vec = AnalysisFeatures(rq[r].resp.fields)

\* The utilization and account-age occurrences extract_credit_info picks.
PickedUtil(text) ==
    IF FirstMatch(text, "MatchesLabeledUtil") # 0
    THEN FirstMatch(text, "MatchesLabeledUtil")
    ELSE FirstMatch(text, "MatchesGenericUtil")

PickedAge(text) ==
    IF FirstMatch(text, "MatchesAgeYears") # 0
    THEN FirstMatch(text, "MatchesAgeYears")
    ELSE FirstMatch(text, "MatchesAgeMonths")

Malformed(text, i) == i # 0 /\ ParseFloat(text[i].num) = ValueError

\* C5: a field whose label matched and whose numeric token is malformed is
\* absent, every other field has the value it has without that token, and the
\* call returns.
C5_MalformedFieldOnly ==
    (xPc = "done"
     /\ (Malformed(xText, PickedUtil(xText))
         \/ (xImpl = "analyzer" /\ Malformed(xText, PickedAge(xText)))))
       => /\ ~xResult.raised
          /\ Malformed(xText, PickedUtil(xText))
                => xResult.info.credit_utilization_percent = None
          /\ xResult.info.number_of_open_accounts = OpenAccounts(xText)
          /\ xImpl = "analyzer" =>
                /\ Malformed(xText, PickedAge(xText))
                      => xResult.info.account_age_years = None
                /\ ~Malformed(xText, PickedUtil(xText))
                      => xResult.info.credit_utilization_percent = Utilization(xText)
                /\ xResult.info.number_of_closed_accounts = ClosedAccounts(xText)
                /\ xResult.info.payment_history = PaymentHistory(xText)

\* C6: every request ends with a result or with one error object of the
\* handler: no exception leaves the view function.
C6_ResultOrError ==
    \A r \in Requests :
        rq[r].pc = "done" => rq[r].resp.kind \in {"result", "error"}

\* C7: an analyze request without an upload is answered with an error object
\* and computes nothing: it writes no file, extracts no text, runs no model
\* and calls no summarization.
C7_NoUploadNoComputation ==
    /\ [](\A r \in Requests :
            (rq[r].op = "analyze" /\ ~rq[r].upload.present)
               => /\ rq[r].pc = "done"
                  /\ rq[r].resp.kind = "error"
                  /\ rq[r].ran = {}
                  /\ ~rq[r].features.built)
    /\ [][\A r \in Requests :
            (rq[r].pc = "idle" /\ rq'[r].op = "analyze" /\ ~rq'[r].upload.present)
               => tempFile' = tempFile]_vars

\* C7's case: an analyze request without an upload has been answered while
\* the file of another request is staged.
C7_Witness ==
    \E r \in Requests :
        /\ rq[r].pc = "done" /\ rq[r].op = "analyze" /\ ~rq[r].upload.present
        /\ tempFile.exists

\* The call raises only on a malformed number of a field it picked.
RaisesOnlyOnMalformed ==
    xResult.raised =>
        \/ Malformed(xText, PickedUtil(xText))
        \/ (xImpl = "analyzer" /\ Malformed(xText, PickedAge(xText)))

C10_SubscriptionUnion ==
    cPc = "done" =>
        LET subs == cSummary.active_subscriptions
        IN  /\ Range(subs) = Range(cIn.pdf_subs) \cup Range(cIn.csv_info.subscriptions)
            /\ Cardinality(Range(subs)) = Len(subs)
            /\ cPrev.made => Range(subs) = Range(cPrev.active_subscriptions)

\* C10's case: a name occurs in both lists and twice in one of them, and the
\* call has been made again on the fed-back result.
C10_Witness ==
    /\ cPc = "done" /\ cPrev.made
    /\ cIn.csv_info.subscriptions = <<"Netflix", "Netflix">>
    /\ Range(cIn.pdf_subs) = {"Netflix", "Spotify"}
    /\ cIn.pdf_subs = cPrev.active_subscriptions
    /\ Len(cSummary.active_subscriptions) = 2

\* The keywords of a recurring obligation as the claim lists them.
ClaimedRecurringKeywords ==
    << <<"e", "m", "i">>,
       <<"i", "n", "s", "u", "r", "a", "n", "c", "e">>,
       <<"l", "o", "a", "n">>,
       <<"c", "r", "e", "d", "i", "t", " ", "c", "a", "r", "d">>,
       <<"s", "i", "p">>,
       <<"m", "u", "t", "u", "a", "l", " ", "f", "u", "n", "d">>,
       <<"s", "u", "b", "s", "c", "r", "i", "p", "t", "i", "o", "n">> >>

\* C11: a row is in the recurring-obligation list exactly when its description,
\* compared without regard to case, contains one of the keywords emi,
\* insurance, loan, credit card, sip, mutual fund, subscription; so a row
\* whose only keyword is "EMI" or "emi" is a recurring obligation.
C11_RecurringKeywords ==
    (pPc = "done" /\ ~pResult.raised) =>
        \A i \in 1..Len(pRows) :
            Entry(pRows[i]) \in Range(pResult.recurring_obligations)
               <=> ContainsAny(ClaimedRecurringKeywords, Lower(pRows[i].Description.s))

\* The rows of pRows whose lowercased description contains a keyword of keys.
RowsWith(keys) ==
    { i \in 1..Len(pRows) : ContainsAny(keys, Lower(pRows[i].Description.s)) }

\* C12: the three classes are tested independently: a row is in the rent list
\* exactly when the rent test succeeds, in the recurring list exactly when
\* the recurring test succeeds, and adds a catalog name exactly when that name
\* is in its description, whatever the other tests give; a row "Netflix
\* monthly" adds to the subscriptions only; a row passing no test is in no
\* output, and no row makes the call raise.
C12_IndependentClasses ==
    pPc = "done" =>
        /\ ~pResult.raised
        /\ \A i \in 1..Len(pRows) :
              /\ Entry(pRows[i]) \in Range(pResult.rent_payments)
                    <=> i \in RowsWith(rent_keywords)
              /\ Entry(pRows[i]) \in Range(pResult.recurring_obligations)
                    <=> i \in RowsWith(recurring_keywords)
        /\ Len(pResult.rent_payments) = Cardinality(RowsWith(rent_keywords))
        /\ Len(pResult.recurring_obligations) = Cardinality(RowsWith(recurring_keywords))
        /\ \A k \in 1..Len(subscription_keywords) :
              subscription_keywords[k] \in Range(pResult.subscriptions)
                 <=> RowsWith(<< Lower(subscription_keywords[k]) >>) # {}
        /\ pRows = << CsvRow(Description(<<"N", "e", "t", "f", "l", "i", "x", " ", "m", "o", "n", "t", "h", "l", "y">>)) >>
              => /\ pResult.rent_payments = <<>>
                 /\ pResult.recurring_obligations = <<>>
                 /\ pResult.subscriptions = << <<"N", "e", "t", "f", "l", "i", "x">> >>

\* The same statement for the calls that return.
C12_WhenReturned == pResult.raised \/ C12_IndependentClasses

\* C13: extract_subscriptions returns a catalog entry exactly when the entry's
\* whole name occurs in the text as a substring, compared without regard to
\* case (for "Disney+" too), each entry once; so it returns for a text what
\* the tabular parser's subscription test returns for a row with that text as
\* its description.
C13_LiteralSubstring ==
    /\ sPc = "done" =>
          /\ \A k \in 1..Len(known_services) :
                known_services[k] \in Range(sResult)
                   <=> Contains(Lower(known_services[k]), Lower(sText))
          /\ Cardinality(Range(sResult)) = Len(sResult)
    /\ (sPc = "done" /\ pPc = "done" /\ ~pResult.raised)
          => Range(sResult) = Range(pResult.subscriptions)

\* C14: in the fields extract_credit_info returns, a field without a counting
\* fallback whose patterns match nowhere in the text holds the absent marker,
\* never a number such as 0: the utilization, the account age, and the
\* missed or late payment count.
C14_AbsentNotZero ==
    (xPc = "done" /\ ~xResult.raised) =>
        /\ PickedUtil(xText) = 0 => xResult.info.credit_utilization_percent = None
        /\ xImpl = "analyzer" =>
              /\ PickedAge(xText) = 0 => xResult.info.account_age_years = None
              /\ (/\ FirstMatch(xText, "MatchesLatePayments") = 0
                  /\ FirstMatch(xText, "MatchesMissedPayments") = 0
                  /\ \A i \in 1..Len(xText) : ~MatchesDPD(xText[i]))
                    => xResult.info.payment_history.cls = "None"
        /\ (xImpl = "app" /\ FirstMatch(xText, "MatchesLatePayments") = 0)
              => xResult.info.missed_payments \notin Int

\* C15: no step of a predict or analyze request, successful or failing, in any
\* interleaving, changes the scaler or the model, and the score of every
\* answered request is the score its feature vector has under the scaler and
\* the model as they are now.
C15_ScalerAndModelUnchanged ==
    /\ [][scaler' = scaler /\ model' = model]_vars
    /\ [](\A r \in Requests :
            (rq[r].pc = "done" /\ rq[r].resp.kind = "result")
               => rq[r].resp.score = Round2(ScoreOf(scaler, model, rq[r].features.vec)))

\* C15's case: with a fitted scaler, one request has been answered with a score
\* and another has failed.
C15_Witness ==
    /\ scaler.loaded
    /\ \E r, q \in Requests :
          /\ rq[r].pc = "done" /\ rq[r].resp.kind = "result" /\ "model" \in rq[r].ran
          /\ rq[q].pc = "done" /\ rq[q].resp.kind \in {"error", "unhandled"}

\* C16: an analyze request that staged its upload has removed the staged file
\* by the time it is answered, with a result or with an error object alike.
C16_StagedFileRemoved ==
    \A r \in Requests :
        (rq[r].pc = "done" /\ rq[r].op = "analyze" /\ "save" \in rq[r].ran)
           => ~tempFile.exists

=============================================================================
